---- MODULE Spec2Model ----
(***************************************************************************)
(* graypy/handler.py: the GELF logging handlers.                           *)
(*                                                                         *)
(* A log record is turned into a GELF document (_make_message_dict),       *)
(* serialized to JSON (_message_to_pickle), optionally compressed          *)
(* (makePickle) and handed to send.  GELFUDPHandler.send hands the payload *)
(* to the datagram socket as it is, or as the chunks of a ChunkedGELF.     *)
(*                                                                         *)
(* Bytes and text are sequences of numbers 0..255 (code points are ASCII). *)
(* A Python call that raises is a result record with ok = FALSE and the    *)
(* exception's name.                                                       *)
(***************************************************************************)
EXTENDS Integers, Sequences, FiniteSets, TLC

VARIABLES
    handler,    \* the handler's configuration (BaseGELFHandler.__init__)
    op,         \* entry point of the current call: "none", "send", "emit", "iter"
    pc,         \* position of the current call
    exc,        \* name of the exception the current call raised, or ""
    record,     \* the LogRecord of the current emit
    fields,     \* the GELF document built by _make_message_dict
    packed,     \* the bytes returned by _message_to_pickle
    s,          \* the payload passed to send / the message given to ChunkedGELF
    chunker,    \* the ChunkedGELF instance of the current call
    gen,        \* the generator of the current iteration of chunker
    passes,     \* how many times __iter__ was called on chunker
    yielded,    \* the chunks the current iteration yielded to a direct caller
    attempts    \* the datagrams handed to the socket in the current call

vars == <<handler, op, pc, exc, record, fields, packed, s, chunker, gen,
          passes, yielded, attempts>>

----------------------------------------------------------------------------
(* Bounds of the model. *)

\* direct payloads have every length 0..MaxSmallLen
MaxSmallLen == 7
\* and the lengths around the chunk-count limits, +0..MaxOver
MaxOver == 2
\* small chunk sizes are 1..MaxChunkSize
MaxChunkSize == 3
\* message ids are drawn from MaxId + 1 values
MaxId == 1
\* __iter__ is called at most MaxPasses times on one instance
MaxPasses == 2

\* the chunk size, besides WAN_CHUNK, of the handlers that emit records
EmitChunkSize == 120

(* Program constants. *)
WAN_CHUNK == 1420
\* the largest value struct.pack('B', n) accepts
UBYTE_MAX == 255

----------------------------------------------------------------------------
(* Values. *)

None == [some |-> FALSE, v |-> <<>>]
Some(x) == [some |-> TRUE, v |-> x]

Ok(x) == [ok |-> TRUE, exc |-> "", val |-> x]
Raise(e) == [ok |-> FALSE, exc |-> e, val |-> <<>>]

NoChunker == [live |-> FALSE, message |-> <<>>, size |-> 0,
              pieces |-> <<>>, id |-> <<>>]
NoGen == [i |-> 0, stop |-> 0, step |-> 1, sequence |-> 0]
NoRecord ==
    [name |-> <<>>, levelno |-> 0, msg |-> <<>>, created |-> 0,
     pathname |-> <<>>, lineno |-> 0, funcName |-> <<>>, process |-> 0,
     threadName |-> <<>>, processName |-> None, exc_info |-> None,
     exc_text |-> None, extra |-> <<>>]

\* ceil(a / b) for a >= 0, b >= 1, as int(math.ceil(a * 1.0 / b)) computes it
\* (the float division is exact for these magnitudes)
CeilDiv(a, b) == (a + b - 1) \div b

Min(a, b) == IF a < b THEN a ELSE b

\* message[i:j] of a Python sequence (0-based, j clipped to the length)
Slice(m, i, j) == SubSeq(m, i + 1, Min(j, Len(m)))

\* struct.pack('B', n): one byte, struct.error outside 0..255
pack_B_masked(n) == Ok(<<n % (UBYTE_MAX + 1)>>)
pack_B(n) == IF n >= 0 /\ n <= UBYTE_MAX THEN Ok(<<n>>) ELSE Raise("struct.error")

\* struct.pack('Q', n): eight bytes in the machine's order, here least
\* significant first
RECURSIVE LittleEndian(_, _)
LittleEndian(n, k) ==
    IF k = 0 THEN <<>> ELSE <<n % 256>> \o LittleEndian(n \div 256, k - 1)
pack_Q(n) == LittleEndian(n, 8)

----------------------------------------------------------------------------
(* class ChunkedGELF *)

\* ChunkedGELF.__init__(message, size), with rnd the value random.randint drew
ChunkedGELF_init_masked(message, size, rnd) ==
    Ok([live |-> TRUE, message |-> message, size |-> size,
        pieces |-> pack_B_masked(CeilDiv(Len(message), size)).val,
        id |-> pack_Q(rnd)])
ChunkedGELF_init(message, size, rnd) ==
    LET p == pack_B(CeilDiv(Len(message), size))
    IN  IF p.ok
        THEN Ok([live |-> TRUE, message |-> message, size |-> size,
                 pieces |-> p.val, id |-> pack_Q(rnd)])
        ELSE Raise(p.exc)

\* ChunkedGELF.message_chunks(self): a new generator over
\* range(0, len(self.message), self.size), counted by enumerate
message_chunks_skip_first(self) ==
    [i |-> self.size, stop |-> Len(self.message), step |-> self.size,
     sequence |-> 0]
message_chunks(self) ==
    [i |-> 0, stop |-> Len(self.message), step |-> self.size, sequence |-> 0]

\* whether the generator has another value: range(0, stop, step) not used up
has_next(g) == g.i < g.stop

\* the slice the generator yields next: self.message[i:i + self.size]
next_chunk_short(self, g) == Slice(self.message, g.i, g.i + self.size - 1)
next_chunk(self, g) == Slice(self.message, g.i, g.i + self.size)

\* the generator after it yielded
advance(g) == [g EXCEPT !.i = g.i + g.step, !.sequence = g.sequence + 1]

\* ChunkedGELF.encode(self, sequence, chunk)
encode_own_id(self, sequence, chunk) ==
    <<30, 15>> \o pack_Q(sequence) \o pack_B(sequence).val \o self.pieces
        \o chunk
encode(self, sequence, chunk) ==
    <<30, 15>> \o self.id \o pack_B(sequence).val \o self.pieces \o chunk

----------------------------------------------------------------------------
(* Text.  A Python str or bytes is the sequence of its code points; the    *)
(* inputs are ASCII, so text.encode('utf-8') and bytes.decode('utf-8')     *)
(* keep the numbers and change only the kind of the value.                 *)

\* 'version'
K_version == <<118, 101, 114, 115, 105, 111, 110>>
\* 'host'
K_host == <<104, 111, 115, 116>>
\* 'short_message'
K_short_message == <<115, 104, 111, 114, 116, 95, 109, 101, 115, 115, 97, 103, 101>>
\* 'full_message'
K_full_message == <<102, 117, 108, 108, 95, 109, 101, 115, 115, 97, 103, 101>>
\* 'timestamp'
K_timestamp == <<116, 105, 109, 101, 115, 116, 97, 109, 112>>
\* 'level'
K_level == <<108, 101, 118, 101, 108>>
\* 'facility'
K_facility == <<102, 97, 99, 105, 108, 105, 116, 121>>
\* 'level_name'
K_level_name == <<108, 101, 118, 101, 108, 95, 110, 97, 109, 101>>
\* '_logger'
K_logger == <<95, 108, 111, 103, 103, 101, 114>>
\* 'file'
K_file == <<102, 105, 108, 101>>
\* 'line'
K_line == <<108, 105, 110, 101>>
\* '_function'
K_function == <<95, 102, 117, 110, 99, 116, 105, 111, 110>>
\* '_pid'
K_pid == <<95, 112, 105, 100>>
\* '_thread_name'
K_thread_name == <<95, 116, 104, 114, 101, 97, 100, 95, 110, 97, 109, 101>>
\* '_process_name'
K_process_name == <<95, 112, 114, 111, 99, 101, 115, 115, 95, 110, 97, 109, 101>>

\* the skip_list of _add_extra_fields
skip_list ==
    {<<97, 114, 103, 115>>,
     <<97, 115, 99, 116, 105, 109, 101>>,
     <<99, 114, 101, 97, 116, 101, 100>>,
     <<101, 120, 99, 95, 105, 110, 102, 111>>,
     <<101, 120, 99, 95, 116, 101, 120, 116>>,
     <<102, 105, 108, 101, 110, 97, 109, 101>>,
     <<102, 117, 110, 99, 78, 97, 109, 101>>,
     <<105, 100>>,
     <<108, 101, 118, 101, 108, 110, 97, 109, 101>>,
     <<108, 101, 118, 101, 108, 110, 111>>,
     <<108, 105, 110, 101, 110, 111>>,
     <<109, 111, 100, 117, 108, 101>>,
     <<109, 115, 101, 99, 115>>,
     <<109, 101, 115, 115, 97, 103, 101>>,
     <<109, 115, 103>>,
     <<110, 97, 109, 101>>,
     <<112, 97, 116, 104, 110, 97, 109, 101>>,
     <<112, 114, 111, 99, 101, 115, 115>>,
     <<112, 114, 111, 99, 101, 115, 115, 78, 97, 109, 101>>,
     <<114, 101, 108, 97, 116, 105, 118, 101, 67, 114, 101, 97, 116, 101, 100>>,
     <<116, 104, 114, 101, 97, 100>>,
     <<116, 104, 114, 101, 97, 100, 78, 97, 109, 101>>}

\* "1.0"
GELF_VERSION_TEXT == <<49, 46, 48>>
\* the names logging.getLevelName gives the standard levels
LEVEL_NAMES ==
    [n \in {10, 20, 30, 40, 50} |->
        CASE n = 50 -> <<67, 82, 73, 84, 73, 67, 65, 76>>
          [] n = 40 -> <<69, 82, 82, 79, 82>>
          [] n = 30 -> <<87, 65, 82, 78, 73, 78, 71>>
          [] n = 20 -> <<73, 78, 70, 79>>
          [] n = 10 -> <<68, 69, 66, 85, 71>>]
\* "Level "
LEVEL_PREFIX == <<76, 101, 118, 101, 108, 32>>

\* values of a document: text, bytes, int, a float with no fraction, None
VStr(x) == [t |-> "str", txt |-> x, num |-> 0]
VBytes(x) == [t |-> "bytes", txt |-> x, num |-> 0]
VInt(n) == [t |-> "int", txt |-> <<>>, num |-> n]
VFloat(n) == [t |-> "float", txt |-> <<>>, num |-> n]

\* str(n) of an int n >= 0
RECURSIVE Digits(_)
Digits(n) == IF n < 10 THEN <<48 + n>> ELSE Digits(n \div 10) \o <<48 + (n % 10)>>

RECURSIVE Flatten(_)
Flatten(parts) ==
    IF parts = <<>> THEN <<>> ELSE Head(parts) \o Flatten(Tail(parts))

\* d[key] = value on a dict kept in insertion order
DictSet(d, key, value) ==
    IF \E i \in 1..Len(d) : d[i].k = key
    THEN [i \in 1..Len(d) |->
            IF d[i].k = key THEN [k |-> key, v |-> value] ELSE d[i]]
    ELSE Append(d, [k |-> key, v |-> value])

----------------------------------------------------------------------------
(* class BaseGELFHandler *)

\* SYSLOG_LEVELS.get(levelno, levelno)
SYSLOG_LEVELS(levelno) ==
    CASE levelno = 50 -> 2
      [] levelno = 40 -> 3
      [] levelno = 30 -> 4
      [] levelno = 20 -> 6
      [] levelno = 10 -> 7
      [] OTHER -> levelno

\* logging.getLevelName(levelno)
getLevelName(levelno) ==
    IF levelno \in DOMAIN LEVEL_NAMES THEN LEVEL_NAMES[levelno]
    ELSE LEVEL_PREFIX \o Digits(levelno)

\* what socket.getfqdn() and socket.gethostname() answer on the machine
FQDN == <<104, 46, 100>>
HOSTNAME == <<104>>

\* BaseGELFHandler._get_full_message(record)
_get_full_message(r) ==
    IF r.exc_info.some THEN r.exc_info.v
    ELSE IF r.exc_text.some /\ r.exc_text.v # <<>> THEN r.exc_text.v
    ELSE r.msg

\* record.__dict__.items(): the standard attributes, then the caller's extras
record_items(r) ==
    <<[k |-> <<110, 97, 109, 101>>, v |-> VStr(r.name)],
      [k |-> <<109, 115, 103>>, v |-> VStr(r.msg)],
      [k |-> <<108, 101, 118, 101, 108, 110, 111>>, v |-> VInt(r.levelno)]>>
        \o r.extra

\* BaseGELFHandler._add_extra_fields(message_dict, record)
RECURSIVE add_items(_, _)
add_items(message_dict, items) ==
    IF items = <<>> THEN message_dict
    ELSE LET key == Head(items).k
             keep == key \notin skip_list /\ (key = <<>> \/ key[1] # 95)
         IN  add_items(IF keep
                       THEN DictSet(message_dict, <<95>> \o key, Head(items).v)
                       ELSE message_dict,
                       Tail(items))
_add_extra_fields(message_dict, r) == add_items(message_dict, record_items(r))

\* the 'facility' entry: self.facility or record.name
facility_or_name(h, r) ==
    IF h.facility.some /\ h.facility.v # <<>> THEN h.facility.v ELSE r.name

\* BaseGELFHandler._make_message_dict(self, record)
_make_message_dict(h, r) ==
    LET host == IF h.fqdn THEN FQDN
                ELSE IF h.localname.some /\ h.localname.v # <<>>
                     THEN h.localname.v
                ELSE HOSTNAME
        short == IF h.formatter.some THEN h.formatter.v \o r.msg ELSE r.msg
        full == IF h.formatter.some THEN h.formatter.v \o r.msg
                ELSE _get_full_message(r)
        f1 == <<[k |-> K_version, v |-> VStr(GELF_VERSION_TEXT)],
                [k |-> K_host, v |-> VStr(host)],
                [k |-> K_short_message, v |-> VStr(short)],
                [k |-> K_full_message, v |-> VStr(full)],
                [k |-> K_timestamp, v |-> VFloat(r.created)],
                [k |-> K_level, v |-> VInt(SYSLOG_LEVELS(r.levelno))],
                [k |-> K_facility, v |-> VStr(facility_or_name(h, r))]>>
        f2 == IF h.level_names
              THEN DictSet(f1, K_level_name, VStr(getLevelName(r.levelno)))
              ELSE f1
        f3 == IF h.facility.some
              THEN DictSet(f2, K_logger, VStr(r.name))
              ELSE f2
        f4 == IF h.debugging_fields
              THEN LET d1 == DictSet(f3, K_file, VStr(r.pathname))
                       d2 == DictSet(d1, K_line, VInt(r.lineno))
                       d3 == DictSet(d2, K_function, VStr(r.funcName))
                       d4 == DictSet(d3, K_pid, VInt(r.process))
                       d5 == DictSet(d4, K_thread_name, VStr(r.threadName))
                   IN  IF r.processName.some
                       THEN DictSet(d5, K_process_name, VStr(r.processName.v))
                       ELSE d5
              ELSE f3
    IN  IF h.extra_fields THEN _add_extra_fields(f4, r) ELSE f4

\* BaseGELFHandler._sanitize(obj) on a document: bytes become text
_sanitize(obj) ==
    [i \in 1..Len(obj) |->
        [k |-> obj[i].k,
         v |-> IF obj[i].v.t = "bytes" THEN VStr(obj[i].v.txt) ELSE obj[i].v]]

\* a JSON string: quotes around the text, '"' and '\' escaped
RECURSIVE json_escape(_)
json_escape(x) ==
    IF x = <<>> THEN <<>>
    ELSE (IF Head(x) \in {34, 92} THEN <<92, Head(x)>> ELSE <<Head(x)>>)
            \o json_escape(Tail(x))
json_string(x) == <<34>> \o json_escape(x) \o <<34>>

json_value(v) ==
    CASE v.t = "str" -> json_string(v.txt)
      [] v.t = "int" -> Digits(v.num)
      [] v.t = "float" -> Digits(v.num) \o <<46, 48>>

\* json.dumps(obj, separators=',:') of a document
json_dumps(obj) ==
    <<123>>
        \o Flatten([i \in 1..Len(obj) |->
                (IF i = 1 THEN <<>> ELSE <<44>>)
                    \o json_string(obj[i].k) \o <<58>> \o json_value(obj[i].v)])
        \o <<125>>

\* BaseGELFHandler._message_to_pickle(obj)
_message_to_pickle(obj) == json_dumps(_sanitize(obj))

\* the sum of f[i] for i in lo..hi, modulo 65521
RECURSIVE SumMod(_, _, _)
SumMod(f, lo, hi) ==
    IF lo > hi THEN 0
    ELSE IF lo = hi THEN f[lo] % 65521
    ELSE LET mid == (lo + hi) \div 2
         IN  (SumMod(f, lo, mid) + SumMod(f, mid + 1, hi)) % 65521

\* zlib.adler32(data), as the pair (b, a) of its 16-bit halves: a is 1 plus
\* the sum of the bytes, b the sum of the values a takes, both modulo 65521
adler32(data) ==
    LET n == Len(data)
        a == (1 + SumMod(data, 1, n)) % 65521
        b == (n + SumMod([i \in 1..n |-> (n - i + 1) * data[i]], 1, n)) % 65521
    IN  <<b, a>>

\* zlib.compress(data): the zlib container (RFC 1950) of a deflate stream
\* of the data: the header 0x78 0x9c, the stream, the big-endian Adler-32 of
\* the data.  The deflate stream is laid out as one stored block (RFC 1951,
\* 3.2.4: 0x01, LEN, ~LEN, the data); zlib's choice of Huffman-coded blocks
\* is not modelled.  The output is a valid zlib stream of the data, and it
\* differs from the data in content and in length.
zlib_compress(data) ==
    LET n == Len(data)
        m == 65535 - n
        ck == adler32(data)
    IN  <<120, 156>>
            \o <<1, n % 256, n \div 256, m % 256, m \div 256>> \o data
            \o <<ck[1] \div 256, ck[1] % 256, ck[2] \div 256, ck[2] % 256>>

\* the frame makePickle returns for the packed document
frame_uncompressed(h, data) == data
frame(h, data) == IF h.compress THEN zlib_compress(data) ELSE data

\* BaseGELFHandler.makePickle(self, record)
\* (val is the frame it returns; message_dict and packed are its locals)
BaseGELFHandler_makePickle(h, r) ==
    LET message_dict == _make_message_dict(h, r)
        packed_ == _message_to_pickle(message_dict)
    IN  [ok |-> TRUE, exc |-> "", val |-> frame(h, packed_),
         message_dict |-> message_dict, packed |-> packed_]

\* GELFTCPHandler.makePickle(self, record): super is the builtin type, which
\* has no attribute makePickle, so the lookup raises before anything is made
GELFTCPHandler_makePickle(h, r) == Raise("AttributeError")

----------------------------------------------------------------------------
(* Inputs. *)

\* a payload of length n whose bytes differ from position to position
PayloadOf(n) == [i \in 1..n |-> (n + i) % 256]

PayloadLens ==
    (0..MaxSmallLen)
        \cup {UBYTE_MAX \div 2 + d : d \in 0..MaxOver}
        \cup {UBYTE_MAX + d : d \in 0..MaxOver}
Payloads == {PayloadOf(n) : n \in PayloadLens}

MessageIds == {k * 257 : k \in 0..MaxId}

SmallChunkSizes == 1..MaxChunkSize

DefaultHandler(kind, size) ==
    [kind |-> kind, chunk_size |-> size, compress |-> TRUE,
     facility |-> None, level_names |-> FALSE, debugging_fields |-> TRUE,
     extra_fields |-> TRUE, fqdn |-> FALSE, localname |-> None,
     formatter |-> None]

----------------------------------------------------------------------------
(* GELFUDPHandler.send *)

\* a call may start when no call is in progress
AtRest == pc = "idle"

\* the current call is over: it returned or raised, or the caller holds a
\* ChunkedGELF it is not iterating
Over == pc \in {"returned", "raised", "built", "exhausted"}

\* the caller goes on: the payload, the ChunkedGELF and what else the call
\* held are dropped; the handler stays as it is for the next call
CallDone ==
    /\ Over
    /\ op' = "none"
    /\ pc' = "idle"
    /\ exc' = ""
    /\ record' = NoRecord
    /\ fields' = <<>>
    /\ packed' = <<>>
    /\ s' = <<>>
    /\ chunker' = NoChunker
    /\ gen' = NoGen
    /\ passes' = 0
    /\ yielded' = <<>>
    /\ attempts' = <<>>
    /\ UNCHANGED handler

\* the test of send: the payload goes out whole
fits_le(payload, size) == Len(payload) <= size
fits(payload, size) == Len(payload) < size

\* what the loop of send does after DatagramHandler.send returned (ok) or
\* raised: an exception leaves the loop and send
after_send_swallow(ok) == "loop"
after_send(ok) == IF ok THEN "loop" ELSE "raised"

\* send(s) up to the first datagram: the whole call when s fits, else the
\* construction of the ChunkedGELF and the start of the for loop
send_begin(payload) ==
    /\ s' = payload
    /\ passes' = 0
    /\ yielded' = <<>>
    /\ IF fits(payload, handler.chunk_size)
       THEN \E ok \in BOOLEAN :
              /\ attempts' = <<[dgram |-> payload, ok |-> ok]>>
              /\ pc' = IF ok THEN "returned" ELSE "raised"
              /\ exc' = IF ok THEN "" ELSE "OSError"
              /\ chunker' = NoChunker
              /\ gen' = NoGen
       ELSE \E rnd \in MessageIds :
              LET c == ChunkedGELF_init(payload, handler.chunk_size, rnd)
              IN  /\ attempts' = <<>>
                  /\ IF c.ok
                     THEN /\ chunker' = c.val
                          /\ gen' = message_chunks(c.val)
                          /\ pc' = "loop"
                          /\ exc' = ""
                     ELSE /\ chunker' = NoChunker
                          /\ gen' = NoGen
                          /\ pc' = "raised"
                          /\ exc' = c.exc

\* GELFUDPHandler.send(s) called with a payload
Send ==
    /\ AtRest
    /\ handler.kind = "udp"
    /\ \E payload \in Payloads : send_begin(payload)
    /\ op' = "send"
    /\ UNCHANGED <<handler, record, fields, packed>>

\* one turn of the for loop: the generator yields the next encoded chunk,
\* which is handed to DatagramHandler.send, which returns or raises
SendChunk ==
    /\ pc = "loop"
    /\ has_next(gen)
    /\ \E ok \in BOOLEAN :
         /\ attempts' = Append(attempts,
                [dgram |-> encode(chunker, gen.sequence, next_chunk(chunker, gen)),
                 ok |-> ok])
         /\ pc' = after_send(ok)
         /\ exc' = IF pc' = "raised" THEN "OSError" ELSE ""
         /\ gen' = advance(gen)
    /\ UNCHANGED <<handler, op, record, fields, packed, s, chunker, passes,
                   yielded>>

\* the generator is used up: the loop ends and send returns
SendReturn ==
    /\ pc = "loop"
    /\ ~has_next(gen)
    /\ pc' = "returned"
    /\ UNCHANGED <<handler, op, exc, record, fields, packed, s, chunker, gen,
                   passes, yielded, attempts>>

----------------------------------------------------------------------------
(* ChunkedGELF used directly *)

\* ChunkedGELF(message, size)
NewChunked ==
    /\ AtRest
    /\ \E message \in Payloads, rnd \in MessageIds :
         LET c == ChunkedGELF_init(message, handler.chunk_size, rnd)
         IN  /\ s' = message
             /\ chunker' = IF c.ok THEN c.val ELSE NoChunker
             /\ pc' = IF c.ok THEN "built" ELSE "raised"
             /\ exc' = c.exc
    /\ op' = "iter"
    /\ gen' = NoGen
    /\ passes' = 0
    /\ yielded' = <<>>
    /\ attempts' = <<>>
    /\ UNCHANGED <<handler, record, fields, packed>>

\* iter(instance): __iter__ starts a generator over self.message_chunks()
IterStart ==
    /\ op = "iter"
    /\ pc \in {"built", "exhausted"}
    /\ passes < MaxPasses
    /\ gen' = message_chunks(chunker)
    /\ passes' = passes + 1
    /\ yielded' = <<>>
    /\ pc' = "iterating"
    /\ UNCHANGED <<handler, op, exc, record, fields, packed, s, chunker,
                   attempts>>

\* next(generator): the next encoded chunk, or StopIteration
IterNext ==
    /\ op = "iter"
    /\ pc = "iterating"
    /\ IF has_next(gen)
       THEN /\ yielded' = Append(yielded,
                    encode(chunker, gen.sequence, next_chunk(chunker, gen)))
            /\ gen' = advance(gen)
            /\ pc' = "iterating"
       ELSE /\ pc' = "exhausted"
            /\ UNCHANGED <<yielded, gen>>
    /\ UNCHANGED <<handler, op, exc, record, fields, packed, s, chunker,
                   passes, attempts>>

----------------------------------------------------------------------------
(* The handler's send and the chunker, on payloads of every length. *)

Init ==
    /\ handler \in {DefaultHandler("udp", size) :
                        size \in SmallChunkSizes \cup {WAN_CHUNK}}
    /\ op = "none"
    /\ pc = "idle"
    /\ exc = ""
    /\ record = NoRecord
    /\ fields = <<>>
    /\ packed = <<>>
    /\ s = <<>>
    /\ chunker = NoChunker
    /\ gen = NoGen
    /\ passes = 0
    /\ yielded = <<>>
    /\ attempts = <<>>

Next ==
    \/ Send
    \/ SendChunk
    \/ SendReturn
    \/ NewChunked
    \/ IterStart
    \/ IterNext
    \/ CallDone

Spec == Init /\ [][Next]_vars

----------------------------------------------------------------------------
(* emit: SocketHandler.emit, which both handlers inherit, makes the pickle *)
(* of the record and sends it; an exception of either step goes to         *)
(* handleError and nothing more is done for the record.                    *)

\* the records logged: logger "a" logs at ERROR with an exception text,
\* logger "b" at the custom level 5; the message is m"
LogRecordOf(name, levelno, exc_text, extra) ==
    [name |-> name, levelno |-> levelno, msg |-> <<109, 34>>, created |-> 5,
     pathname |-> <<112>>, lineno |-> 7, funcName |-> <<102>>, process |-> 9,
     threadName |-> <<116>>, processName |-> Some(<<80>>),
     exc_info |-> None, exc_text |-> exc_text, extra |-> extra]

\* the attributes a caller added to the record: none, or logger = "x",
\* id = 1 and u = b"x"
Extras ==
    {<<>>,
     <<[k |-> <<108, 111, 103, 103, 101, 114>>, v |-> VStr(<<120>>)],
       [k |-> <<105, 100>>, v |-> VInt(1)],
       [k |-> <<117>>, v |-> VBytes(<<120>>)]>>}

LogRecords ==
    {LogRecordOf(<<97>>, 40, Some(<<69>>), extra) : extra \in Extras}
        \cup {LogRecordOf(<<98>>, 5, None, extra) : extra \in Extras}

Facilities == {None, Some(<<>>), Some(<<102>>)}

EmitHandlers ==
    {[kind |-> kind, chunk_size |-> size, compress |-> compress,
      facility |-> facility, level_names |-> level_names,
      debugging_fields |-> debugging_fields, extra_fields |-> extra_fields,
      fqdn |-> FALSE, localname |-> localname, formatter |-> None] :
        kind \in {"udp", "tcp"},
        size \in {EmitChunkSize, WAN_CHUNK},
        compress \in BOOLEAN,
        facility \in Facilities,
        level_names \in BOOLEAN,
        debugging_fields \in BOOLEAN,
        extra_fields \in BOOLEAN,
        localname \in {None, Some(<<108>>)}}

\* emit(record) of a GELFUDPHandler, up to the first datagram
EmitUDP ==
    /\ AtRest
    /\ handler.kind = "udp"
    /\ \E r \in LogRecords :
         LET p == BaseGELFHandler_makePickle(handler, r)
         IN  /\ record' = r
             /\ fields' = p.message_dict
             /\ packed' = p.packed
             /\ send_begin(p.val)
    /\ op' = "emit"
    /\ UNCHANGED handler

\* emit(record) of a GELFTCPHandler
EmitTCP ==
    /\ AtRest
    /\ handler.kind = "tcp"
    /\ \E r \in LogRecords :
         LET p == GELFTCPHandler_makePickle(handler, r)
         IN  /\ record' = r
             /\ s' = p.val
             /\ attempts' = IF p.ok THEN <<[dgram |-> p.val, ok |-> TRUE]>>
                            ELSE <<>>
             /\ pc' = IF p.ok THEN "returned" ELSE "raised"
             /\ exc' = p.exc
    /\ op' = "emit"
    /\ fields' = <<>>
    /\ packed' = <<>>
    /\ chunker' = NoChunker
    /\ gen' = NoGen
    /\ passes' = 0
    /\ yielded' = <<>>
    /\ UNCHANGED handler

\* handlers of every configuration emitting records (a GELFTCPHandler is
\* constructed with compress False)
InitEmit ==
    /\ handler \in {h \in EmitHandlers : h.kind = "tcp" => ~h.compress}
    /\ op = "none"
    /\ pc = "idle"
    /\ exc = ""
    /\ record = NoRecord
    /\ fields = <<>>
    /\ packed = <<>>
    /\ s = <<>>
    /\ chunker = NoChunker
    /\ gen = NoGen
    /\ passes = 0
    /\ yielded = <<>>
    /\ attempts = <<>>

NextEmit ==
    \/ EmitUDP
    \/ EmitTCP
    \/ SendChunk
    \/ SendReturn
    \/ CallDone

SpecEmit == InitEmit /\ [][NextEmit]_vars

----------------------------------------------------------------------------
(* What the claims speak of. *)

\* the number of chunks a payload of length n needs at chunk size size:
\* ceil(n / size), the least k with k * size >= n
NeededChunks(n, size) ==
    LET q == n \div size IN IF q * size = n THEN q ELSE q + 1

\* the chunks the current call produced: yielded to a direct caller, or handed
\* to the socket by send
Chunks ==
    IF op = "iter" THEN yielded
    ELSE [i \in 1..Len(attempts) |-> attempts[i].dgram]

\* the current call went through all the chunks of its ChunkedGELF
Complete ==
    /\ chunker.live
    /\ \/ op = "iter" /\ pc = "exhausted" /\ passes >= 1
       \/ op \in {"send", "emit"} /\ pc = "returned"

\* the payload slice of a chunk: what follows the 12 bytes of its header
PayloadSlice(c) == SubSeq(c, 13, Len(c))

\* the payload slices of chunks lo..hi of cs, one after the other
RECURSIVE ConcatRange(_, _, _)
ConcatRange(cs, lo, hi) ==
    IF lo > hi THEN <<>>
    ELSE IF lo = hi THEN PayloadSlice(cs[lo])
    ELSE LET mid == (lo + hi) \div 2
         IN  ConcatRange(cs, lo, mid) \o ConcatRange(cs, mid + 1, hi)
ConcatSlices(cs) == ConcatRange(cs, 1, Len(cs))

\* the k-th chunk (k = 1, 2, ...) of message m at chunk size size, as the
\* GELF chunk format lays it out
ExpectedChunk(m, size, id, k) ==
    <<30, 15>> \o id \o <<k - 1>> \o <<NeededChunks(Len(m), size)>>
        \o SubSeq(m, (k - 1) * size + 1, Min(k * size, Len(m)))

----------------------------------------------------------------------------
(* C1: a payload of length L >= S that needs at most 255 chunks is turned  *)
(* into exactly ceil(L/S) chunks; each is the marker 0x1e 0x0f, an 8-byte  *)
(* id, the 0-based sequence index, the total count, then a slice; the      *)
(* indices run 0, 1, ... in emission order, every total count is           *)
(* ceil(L/S), all ids are the same, and the slices in order concatenate to *)
(* the payload.                                                            *)
C1_ChunkingContract ==
    (Complete /\ Len(s) >= chunker.size
        /\ NeededChunks(Len(s), chunker.size) <= 255)
    => LET n == NeededChunks(Len(s), chunker.size)
           cs == Chunks
       IN  /\ Len(cs) = n
           /\ \A i \in 1..Len(cs) :
                /\ Len(cs[i]) >= 12
                /\ SubSeq(cs[i], 1, 2) = <<30, 15>>
                /\ SubSeq(cs[i], 3, 10) = SubSeq(cs[1], 3, 10)
                /\ cs[i][11] = i - 1
                /\ cs[i][12] = n
           /\ ConcatSlices(cs) = s

C1_Witness ==
    /\ Complete
    /\ Len(s) >= chunker.size
    /\ Len(Chunks) >= 3
    /\ Len(s) % chunker.size # 0
    /\ chunker.id # pack_Q(0)

(* C2: send chunks exactly when the payload is at least chunk_size long: a *)
(* payload shorter than chunk_size is one datagram equal to the payload; a *)
(* payload of at least chunk_size goes out only as chunks with the chunk   *)
(* header, and one of exactly chunk_size as one chunk, sequence 0 of 1.    *)
C2_ChunkingDecision ==
    op = "send"
    => IF Len(s) < handler.chunk_size
       THEN /\ ~chunker.live
            /\ Len(attempts) = 1
            /\ attempts[1].dgram = s
            /\ pc \in {"returned", "raised"}
       ELSE /\ chunker.live \/ (pc = "raised" /\ attempts = <<>>)
            /\ \A i \in 1..Len(attempts) :
                 /\ Len(attempts[i].dgram) > 12
                 /\ SubSeq(attempts[i].dgram, 1, 2) = <<30, 15>>
            /\ (Len(s) = handler.chunk_size /\ pc = "returned")
               => /\ Len(attempts) = 1
                  /\ attempts[1].dgram = <<30, 15>> \o chunker.id \o <<0, 1>> \o s

C2_Witness ==
    /\ op = "send"
    /\ pc = "returned"
    /\ Len(s) = handler.chunk_size
    /\ Len(s) > 1
    /\ Len(attempts) = 1

(* C4: the chunks of one send go to the socket one at a time in ascending  *)
(* sequence order, each only after the one before was sent; a failed send  *)
(* ends the call at once: the chunks before it stay sent, it is not tried  *)
(* again and no later chunk is sent.                                       *)
C4_InOrder ==
    (op = "send" /\ chunker.live)
    => /\ \A i \in 1..Len(attempts) :
            /\ attempts[i].dgram[11] = i - 1
            /\ i < Len(attempts) => attempts[i].ok
       /\ (attempts # <<>> /\ ~attempts[Len(attempts)].ok)
            => (pc = "raised" /\ exc = "OSError")
       /\ pc = "returned" => \A i \in 1..Len(attempts) : attempts[i].ok

C4_StopsAtFailure ==
    pc = "raised" => (pc' = "idle" /\ attempts' = <<>>)

C4_OneAtATime ==
    (pc = "loop" /\ pc' \in {"loop", "raised"})
    => /\ Len(attempts') = Len(attempts) + 1
       /\ SubSeq(attempts', 1, Len(attempts)) = attempts

\* C4: the three parts together: the order and the outcome in every state,
\* and every step of a send adds one datagram or ends the call
C4_OrderedSendFailFast ==
    [](C4_InOrder) /\ [][C4_StopsAtFailure /\ C4_OneAtATime]_vars

C4_Witness ==
    /\ op = "send"
    /\ chunker.live
    /\ pc = "raised"
    /\ Len(attempts) = 3
    /\ NeededChunks(Len(s), chunker.size) > 3

(* C5: the total chunk count written in the chunks that are sent never     *)
(* exceeds 128.                                                            *)
C5_AtMost128Chunks ==
    (op = "send" /\ chunker.live)
    => \A i \in 1..Len(attempts) : attempts[i].dgram[12] <= 128

(* C6 as claimed: when the payload needs more than 255 chunks the send     *)
(* goes on and produces chunks; it does not fail before any chunk is       *)
(* produced.                                                               *)
C6_OverflowGoesOn ==
    (op = "send" /\ Len(s) >= handler.chunk_size
        /\ NeededChunks(Len(s), handler.chunk_size) > 255)
    => ~(pc = "raised" /\ attempts = <<>>)

(* C6 amended: when the payload needs more than 255 chunks, the            *)
(* construction of the ChunkedGELF raises struct.error: send fails before  *)
(* any chunk is produced and no datagram is sent.                          *)
C6_OverflowRaises ==
    (op = "send" /\ Len(s) >= handler.chunk_size
        /\ NeededChunks(Len(s), handler.chunk_size) > 255)
    => /\ pc = "raised"
       /\ exc = "struct.error"
       /\ attempts = <<>>
       /\ ~chunker.live

C6_Witness ==
    /\ op = "send"
    /\ NeededChunks(Len(s), handler.chunk_size) = 256
    /\ pc = "raised"

(* C9 as claimed: after an instance was iterated to the end, iterating it  *)
(* again produces no chunks.                                               *)
C9_SecondPassEmpty ==
    (op = "iter" /\ passes >= 2) => yielded = <<>>

(* C9 amended: each iterator of a ChunkedGELF is finite and single-pass,   *)
(* but the instance is restartable: every call of __iter__ starts a new    *)
(* pass, which yields the whole chunk sequence again, with the same id and *)
(* total count.                                                            *)
C9_EveryPassYieldsAll ==
    (op = "iter" /\ pc \in {"iterating", "exhausted"})
    => /\ Len(yielded) = gen.sequence
       /\ \A k \in 1..Len(yielded) :
            yielded[k] = ExpectedChunk(s, chunker.size, chunker.id, k)
       /\ pc = "exhausted"
            => /\ ~has_next(gen)
               /\ Len(yielded) = NeededChunks(Len(s), chunker.size)

C9_Witness ==
    /\ op = "iter"
    /\ passes = 2
    /\ pc = "exhausted"
    /\ Len(yielded) >= 2

(* C10: chunk_size bounds the slice, not the datagram: in a chunked send   *)
(* of a payload of length L >= S every datagram is 12 bytes longer than    *)
(* its slice; every chunk but the last carries S bytes and the last 1..S;  *)
(* so no datagram is longer than S + 12, no slice is empty, and the first  *)
(* datagram is S + 12 bytes long.                                          *)
C10_DatagramLengths ==
    (op = "send" /\ chunker.live /\ Len(s) >= handler.chunk_size)
    => LET size == handler.chunk_size
           n == NeededChunks(Len(s), size)
       IN  \A i \in 1..Len(attempts) :
             LET d == attempts[i].dgram
             IN  /\ Len(d) = 12 + Len(PayloadSlice(d))
                 /\ i < n => Len(PayloadSlice(d)) = size
                 /\ i = n => Len(PayloadSlice(d)) = Len(s) - (n - 1) * size
                 /\ Len(PayloadSlice(d)) >= 1
                 /\ Len(d) <= size + 12
                 /\ i = 1 => (Len(d) = size + 12 /\ Len(d) > size)

C10_Witness ==
    /\ op = "send"
    /\ chunker.live
    /\ pc = "returned"
    /\ Len(attempts) >= 2
    /\ Len(attempts[Len(attempts)].dgram) < handler.chunk_size + 12

(* C3: the makePickle of the TCP handler returns the serialized JSON of    *)
(* the record, uncompressed, followed by one 0x00 byte, and the handler    *)
(* writes that frame to the stream in a single send, never as chunks.      *)
C3_TCPFrame ==
    (op = "emit" /\ handler.kind = "tcp")
    => /\ exc = ""
       /\ s = _message_to_pickle(_make_message_dict(handler, record)) \o <<0>>
       /\ Len(attempts) = 1
       /\ attempts[1].dgram = s
       /\ ~chunker.live

\* whether document d has an entry for key, and the entry's value
DictHas(d, key) == \E i \in 1..Len(d) : d[i].k = key
DictGet(d, key) == d[CHOOSE i \in 1..Len(d) : d[i].k = key].v

\* what a zlib stream holding one stored block decompresses to
Decompressed(z) == SubSeq(z, 8, Len(z) - 4)

(* C7: compression is applied once, to the whole serialized payload, and   *)
(* before chunking: with compress on the payload given to send is the      *)
(* compressed serialized bytes, with compress off the serialized bytes     *)
(* themselves; send decides on the length of that payload, and the chunk   *)
(* slices are consecutive pieces of it, none compressed on its own.        *)
C7_CompressThenChunk ==
    (op = "emit" /\ handler.kind = "udp")
    => LET size == handler.chunk_size
       IN  /\ handler.compress
                => /\ SubSeq(s, 1, 2) = <<120, 156>>
                   /\ Decompressed(s) = packed
                   /\ s # packed
           /\ ~handler.compress => s = packed
           /\ chunker.live = (Len(s) >= size)
           /\ ~chunker.live => (Len(attempts) = 1 /\ attempts[1].dgram = s)
           /\ chunker.live
                => /\ \A i \in 1..Len(attempts) :
                        PayloadSlice(attempts[i].dgram)
                            = SubSeq(s, (i - 1) * size + 1, Min(i * size, Len(s)))
                   /\ pc = "returned" => ConcatSlices(Chunks) = s

C7_Witness ==
    /\ op = "emit"
    /\ handler.compress
    /\ pc = "returned"
    /\ chunker.live
    /\ Len(packed) < handler.chunk_size
    /\ Len(attempts) = 2

(* C8: the facility of the document is the configured facility whenever    *)
(* one is configured (an empty string too), and then the logger name is    *)
(* recorded under _logger; with none configured the facility is the logger *)
(* name and _logger is absent unless an extra field adds it.               *)
C8_FacilityOverride ==
    (op = "emit" /\ handler.kind = "udp")
    => LET extra_logger ==
               /\ handler.extra_fields
               /\ \E i \in 1..Len(record.extra) :
                    record.extra[i].k = <<108, 111, 103, 103, 101, 114>>
       IN  IF handler.facility.some
           THEN /\ DictGet(fields, K_facility) = VStr(handler.facility.v)
                /\ DictHas(fields, K_logger)
                /\ ~extra_logger => DictGet(fields, K_logger) = VStr(record.name)
           ELSE /\ DictGet(fields, K_facility) = VStr(record.name)
                /\ DictHas(fields, K_logger) => extra_logger

====
